---------------------------- MODULE Spec2Model ----------------------------
(***************************************************************************)
(* hono-honeypot: the honeypot() middleware factory and the request        *)
(* handler it returns.  Strings are sequences of one-character strings, a  *)
(* RegExp object is a record of its source text, its flags and its parsed  *)
(* pattern, and the lastIndex slot of every global or sticky RegExp is     *)
(* program state.                                                          *)
(***************************************************************************)
EXTENDS Integers, Sequences, FiniteSets, TLC

(***************************************************************************)
(* Characters and RegExp matching (ECMAScript semantics of RegExp.test).   *)
(***************************************************************************)
LowerCase ==
  <<"a", "b", "c", "d", "e", "f", "g", "h", "i", "j", "k", "l", "m",
    "n", "o", "p", "q", "r", "s", "t", "u", "v", "w", "x", "y", "z">>

UpperCase ==
  <<"A", "B", "C", "D", "E", "F", "G", "H", "I", "J", "K", "L", "M",
    "N", "O", "P", "Q", "R", "S", "T", "U", "V", "W", "X", "Y", "Z">>

DecimalDigits == {"0", "1", "2", "3", "4", "5", "6", "7", "8", "9"}

\* Canonicalize of the /i flag: a character is compared by its upper case.
ToUpperCase ==
  [ch \in {LowerCase[k] : k \in 1..Len(LowerCase)} |->
     UpperCase[CHOOSE k \in 1..Len(LowerCase) : LowerCase[k] = ch]]

\* Mutant: the i flag is ignored.
CanonicalizeExact(ch, ignoreCase) == ch

Canonicalize(ch, ignoreCase) ==
  IF ignoreCase /\ ch \in DOMAIN ToUpperCase THEN ToUpperCase[ch] ELSE ch

\* Pattern nodes: what the pattern syntax used in this repository parses to.
Str(cs) == [t |-> "str", cs |-> cs]
Digit == [t |-> "digit"]
\* Mutant: ^ is not asserted.
BolDropped == [t |-> "str", cs |-> <<>>]

Bol == [t |-> "bol"]

\* Mutant: $ is not asserted.
EolDropped == [t |-> "str", cs |-> <<>>]

Eol == [t |-> "eol"]
Cat(rs) == [t |-> "cat", rs |-> rs]
Alt(rs) == [t |-> "alt", rs |-> rs]
Opt(r) == [t |-> "opt", r |-> r]
Rep(r, n) == [t |-> "rep", r |-> r, n |-> n]

StrMatches(cs, s, i, ic) ==
  /\ i + Len(cs) - 1 <= Len(s)
  /\ \A k \in 1..Len(cs) : Canonicalize(s[i + k - 1], ic) = Canonicalize(cs[k], ic)

RECURSIVE Ends(_, _, _, _)
RECURSIVE CatEnds(_, _, _, _, _)
RECURSIVE CatBind(_, _, _, _, _)
RECURSIVE AltEnds(_, _, _, _, _)
RECURSIVE RepEnds(_, _, _, _, _)
RECURSIVE RepBind(_, _, _, _, _)

\* The positions at which a match of node that starts at position i of s can
\* end, in the order the backtracking matcher tries them (positions are
\* 1-based; an end position is the position after the last matched character).
Ends(node, s, i, ic) ==
  CASE node.t = "str" -> IF StrMatches(node.cs, s, i, ic) THEN <<i + Len(node.cs)>> ELSE <<>>
    [] node.t = "digit" -> IF i <= Len(s) /\ s[i] \in DecimalDigits THEN <<i + 1>> ELSE <<>>
    [] node.t = "bol" -> IF i = 1 THEN <<i>> ELSE <<>>
    [] node.t = "eol" -> IF i = Len(s) + 1 THEN <<i>> ELSE <<>>
    [] node.t = "cat" -> CatEnds(node.rs, 1, s, i, ic)
    [] node.t = "alt" -> AltEnds(node.rs, 1, s, i, ic)
    [] node.t = "opt" -> Ends(node.r, s, i, ic) \o <<i>>
    [] node.t = "rep" -> RepEnds(node.r, node.n, s, i, ic)

CatEnds(rs, k, s, i, ic) ==
  IF k > Len(rs) THEN <<i>> ELSE CatBind(Ends(rs[k], s, i, ic), rs, k + 1, s, ic)

CatBind(es, rs, k, s, ic) ==
  IF es = <<>> THEN <<>>
  ELSE CatEnds(rs, k, s, Head(es), ic) \o CatBind(Tail(es), rs, k, s, ic)

AltEnds(rs, k, s, i, ic) ==
  IF k > Len(rs) THEN <<>> ELSE Ends(rs[k], s, i, ic) \o AltEnds(rs, k + 1, s, i, ic)

RepEnds(r, n, s, i, ic) ==
  IF n = 0 THEN <<i>> ELSE RepBind(Ends(r, s, i, ic), r, n - 1, s, ic)

RepBind(es, r, n, s, ic) ==
  IF es = <<>> THEN <<>>
  ELSE RepEnds(r, n, s, Head(es), ic) \o RepBind(Tail(es), r, n, s, ic)

\* Mutant: the pattern is tried at pos only, never further on.
ScanAtStart(ast, s, pos, ic) ==
  LET es == IF pos > Len(s) + 1 THEN <<>> ELSE Ends(ast, s, pos, ic)
  IN  IF es # <<>> THEN [start |-> pos, end |-> Head(es)] ELSE [start |-> 0, end |-> 0]

RECURSIVE Scan(_, _, _, _)
\* The unanchored search of RegExpBuiltinExec: the first start position from
\* pos on at which the pattern matches, and where that match ends; 0 if none.
Scan(ast, s, pos, ic) ==
  IF pos > Len(s) + 1 THEN [start |-> 0, end |-> 0]
  ELSE LET es == Ends(ast, s, pos, ic)
       IN  IF es # <<>> THEN [start |-> pos, end |-> Head(es)]
           ELSE Scan(ast, s, pos + 1, ic)

\* RegExp.prototype.test on a RegExp whose lastIndex slot holds li (0-based):
\* whether it matched, and the value lastIndex holds afterwards.  Only a
\* global or sticky RegExp reads or writes lastIndex.
RegExpTest(rx, li, s) ==
  LET stateful == "g" \in rx.flags \/ "y" \in rx.flags
      ic == "i" \in rx.flags
      from == IF stateful THEN li ELSE 0
      m == IF from > Len(s) THEN [start |-> 0, end |-> 0]
           ELSE IF "y" \in rx.flags
                THEN LET es == Ends(rx.ast, s, from + 1, ic)
                     IN  IF es # <<>> THEN [start |-> from + 1, end |-> Head(es)]
                         ELSE [start |-> 0, end |-> 0]
                ELSE Scan(rx.ast, s, from + 1, ic)
  IN  [matched |-> m.start # 0,
       lastIndex |-> IF ~stateful THEN li
                     ELSE IF m.start # 0 THEN m.end - 1 ELSE 0]

(***************************************************************************)
(* The built-in signatures.                                                *)
(***************************************************************************)
ATTACK_PATTERNS ==
  <<
     \* line 23: /\.php$/i
     [source |-> "\\.php$", flags |-> {"i"},
      ast |-> Cat(<<Str(<<".", "p", "h", "p">>), Eol>>)],
     \* line 24: /\/config\.php/i
     [source |-> "\\/config\\.php", flags |-> {"i"},
      ast |-> Str(<<"/", "c", "o", "n", "f", "i", "g", ".", "p", "h", "p">>)],
     \* line 25: /\/phpinfo/i
     [source |-> "\\/phpinfo", flags |-> {"i"},
      ast |-> Str(<<"/", "p", "h", "p", "i", "n", "f", "o">>)],
     \* line 26: /\/eval-stdin\.php/i
     [source |-> "\\/eval-stdin\\.php", flags |-> {"i"},
      ast |-> Str(<<"/", "e", "v", "a", "l", "-", "s", "t", "d", "i", "n", ".", "p", "h", "p">>)],
     \* line 27: /\/xmlrpc\.php/i
     [source |-> "\\/xmlrpc\\.php", flags |-> {"i"},
      ast |-> Str(<<"/", "x", "m", "l", "r", "p", "c", ".", "p", "h", "p">>)],
     \* line 30: /\/ALFA_DATA/i
     [source |-> "\\/ALFA_DATA", flags |-> {"i"},
      ast |-> Str(<<"/", "A", "L", "F", "A", "_", "D", "A", "T", "A">>)],
     \* line 31: /\/c99\.php/i
     [source |-> "\\/c99\\.php", flags |-> {"i"},
      ast |-> Str(<<"/", "c", "9", "9", ".", "p", "h", "p">>)],
     \* line 32: /\/r57\.php/i
     [source |-> "\\/r57\\.php", flags |-> {"i"},
      ast |-> Str(<<"/", "r", "5", "7", ".", "p", "h", "p">>)],
     \* line 33: /\/shell\.php/i
     [source |-> "\\/shell\\.php", flags |-> {"i"},
      ast |-> Str(<<"/", "s", "h", "e", "l", "l", ".", "p", "h", "p">>)],
     \* line 34: /\/webshell/i
     [source |-> "\\/webshell", flags |-> {"i"},
      ast |-> Str(<<"/", "w", "e", "b", "s", "h", "e", "l", "l">>)],
     \* line 37: /^\/wp$/i
     [source |-> "^\\/wp$", flags |-> {"i"},
      ast |-> Cat(<<Bol, Str(<<"/", "w", "p">>), Eol>>)],
     \* line 38: /^\/wp-/i
     [source |-> "^\\/wp-", flags |-> {"i"},
      ast |-> Cat(<<Bol, Str(<<"/", "w", "p", "-">>)>>)],
     \* line 39: /^\/wordpress/i
     [source |-> "^\\/wordpress", flags |-> {"i"},
      ast |-> Cat(<<Bol, Str(<<"/", "w", "o", "r", "d", "p", "r", "e", "s", "s">>)>>)],
     \* line 42: /\/wp-includes\//i
     [source |-> "\\/wp-includes\\/", flags |-> {"i"},
      ast |-> Str(<<"/", "w", "p", "-", "i", "n", "c", "l", "u", "d", "e", "s", "/">>)],
     \* line 43: /\/wp-content\//i
     [source |-> "\\/wp-content\\/", flags |-> {"i"},
      ast |-> Str(<<"/", "w", "p", "-", "c", "o", "n", "t", "e", "n", "t", "/">>)],
     \* line 44: /\/wp-admin/i
     [source |-> "\\/wp-admin", flags |-> {"i"},
      ast |-> Str(<<"/", "w", "p", "-", "a", "d", "m", "i", "n">>)],
     \* line 45: /wlwmanifest\.xml$/i
     [source |-> "wlwmanifest\\.xml$", flags |-> {"i"},
      ast |-> Cat(<<Str(<<"w", "l", "w", "m", "a", "n", "i", "f", "e", "s", "t", ".", "x", "m", "l">>), Eol>>)],
     \* line 48: /^\/uploads?$/i
     [source |-> "^\\/uploads?$", flags |-> {"i"},
      ast |-> Cat(<<Bol, Str(<<"/", "u", "p", "l", "o", "a", "d">>), Opt(Str(<<"s">>)), Eol>>)],
     \* line 49: /^\/images$/i
     [source |-> "^\\/images$", flags |-> {"i"},
      ast |-> Cat(<<Bol, Str(<<"/", "i", "m", "a", "g", "e", "s">>), Eol>>)],
     \* line 50: /^\/assets$/i
     [source |-> "^\\/assets$", flags |-> {"i"},
      ast |-> Cat(<<Bol, Str(<<"/", "a", "s", "s", "e", "t", "s">>), Eol>>)],
     \* line 51: /^\/files$/i
     [source |-> "^\\/files$", flags |-> {"i"},
      ast |-> Cat(<<Bol, Str(<<"/", "f", "i", "l", "e", "s">>), Eol>>)],
     \* line 52: /^\/media$/i
     [source |-> "^\\/media$", flags |-> {"i"},
      ast |-> Cat(<<Bol, Str(<<"/", "m", "e", "d", "i", "a">>), Eol>>)],
     \* line 53: /^\/public$/i
     [source |-> "^\\/public$", flags |-> {"i"},
      ast |-> Cat(<<Bol, Str(<<"/", "p", "u", "b", "l", "i", "c">>), Eol>>)],
     \* line 56: /\/admin\/(uploads?|images|editor|fckeditor|controller)/i
     [source |-> "\\/admin\\/(uploads?|images|editor|fckeditor|controller)", flags |-> {"i"},
      ast |-> Cat(<<Str(<<"/", "a", "d", "m", "i", "n", "/">>), Alt(<<Cat(<<Str(<<"u", "p", "l", "o", "a", "d">>), Opt(Str(<<"s">>))>>), Str(<<"i", "m", "a", "g", "e", "s">>), Str(<<"e", "d", "i", "t", "o", "r">>), Str(<<"f", "c", "k", "e", "d", "i", "t", "o", "r">>), Str(<<"c", "o", "n", "t", "r", "o", "l", "l", "e", "r">>)>>)>>)],
     \* line 59: /^\/modules$/i
     [source |-> "^\\/modules$", flags |-> {"i"},
      ast |-> Cat(<<Bol, Str(<<"/", "m", "o", "d", "u", "l", "e", "s">>), Eol>>)],
     \* line 60: /^\/plugins$/i
     [source |-> "^\\/plugins$", flags |-> {"i"},
      ast |-> Cat(<<Bol, Str(<<"/", "p", "l", "u", "g", "i", "n", "s">>), Eol>>)],
     \* line 61: /^\/components$/i
     [source |-> "^\\/components$", flags |-> {"i"},
      ast |-> Cat(<<Bol, Str(<<"/", "c", "o", "m", "p", "o", "n", "e", "n", "t", "s">>), Eol>>)],
     \* line 62: /^\/system$/i
     [source |-> "^\\/system$", flags |-> {"i"},
      ast |-> Cat(<<Bol, Str(<<"/", "s", "y", "s", "t", "e", "m">>), Eol>>)],
     \* line 63: /^\/template$/i
     [source |-> "^\\/template$", flags |-> {"i"},
      ast |-> Cat(<<Bol, Str(<<"/", "t", "e", "m", "p", "l", "a", "t", "e">>), Eol>>)],
     \* line 64: /^\/includes?$/i
     [source |-> "^\\/includes?$", flags |-> {"i"},
      ast |-> Cat(<<Bol, Str(<<"/", "i", "n", "c", "l", "u", "d", "e">>), Opt(Str(<<"s">>)), Eol>>)],
     \* line 65: /^\/vendor$/i
     [source |-> "^\\/vendor$", flags |-> {"i"},
      ast |-> Cat(<<Bol, Str(<<"/", "v", "e", "n", "d", "o", "r">>), Eol>>)],
     \* line 66: /^\/local$/i
     [source |-> "^\\/local$", flags |-> {"i"},
      ast |-> Cat(<<Bol, Str(<<"/", "l", "o", "c", "a", "l">>), Eol>>)],
     \* line 67: /^\/php$/i
     [source |-> "^\\/php$", flags |-> {"i"},
      ast |-> Cat(<<Bol, Str(<<"/", "p", "h", "p">>), Eol>>)],
     \* line 70: /\/fckeditor\/editor\/filemanager/i
     [source |-> "\\/fckeditor\\/editor\\/filemanager", flags |-> {"i"},
      ast |-> Str(<<"/", "f", "c", "k", "e", "d", "i", "t", "o", "r", "/", "e", "d", "i", "t", "o", "r", "/", "f", "i", "l", "e", "m", "a", "n", "a", "g", "e", "r">>)],
     \* line 71: /\/sites\/default\/files/i
     [source |-> "\\/sites\\/default\\/files", flags |-> {"i"},
      ast |-> Str(<<"/", "s", "i", "t", "e", "s", "/", "d", "e", "f", "a", "u", "l", "t", "/", "f", "i", "l", "e", "s">>)],
     \* line 72: /\/images\/stories/i
     [source |-> "\\/images\\/stories", flags |-> {"i"},
      ast |-> Str(<<"/", "i", "m", "a", "g", "e", "s", "/", "s", "t", "o", "r", "i", "e", "s">>)],
     \* line 73: /\/modules\/mod_simplefileupload/i
     [source |-> "\\/modules\\/mod_simplefileupload", flags |-> {"i"},
      ast |-> Str(<<"/", "m", "o", "d", "u", "l", "e", "s", "/", "m", "o", "d", "_", "s", "i", "m", "p", "l", "e", "f", "i", "l", "e", "u", "p", "l", "o", "a", "d">>)],
     \* line 74: /\/controller\/extension/i
     [source |-> "\\/controller\\/extension", flags |-> {"i"},
      ast |-> Str(<<"/", "c", "o", "n", "t", "r", "o", "l", "l", "e", "r", "/", "e", "x", "t", "e", "n", "s", "i", "o", "n">>)],
     \* line 77: /^\/admin(\.php)?$/i
     [source |-> "^\\/admin(\\.php)?$", flags |-> {"i"},
      ast |-> Cat(<<Bol, Str(<<"/", "a", "d", "m", "i", "n">>), Opt(Str(<<".", "p", "h", "p">>)), Eol>>)],
     \* line 78: /^\/administrator/i
     [source |-> "^\\/administrator", flags |-> {"i"},
      ast |-> Cat(<<Bol, Str(<<"/", "a", "d", "m", "i", "n", "i", "s", "t", "r", "a", "t", "o", "r">>)>>)],
     \* line 79: /^\/phpmyadmin/i
     [source |-> "^\\/phpmyadmin", flags |-> {"i"},
      ast |-> Cat(<<Bol, Str(<<"/", "p", "h", "p", "m", "y", "a", "d", "m", "i", "n">>)>>)],
     \* line 80: /^\/cpanel/i
     [source |-> "^\\/cpanel", flags |-> {"i"},
      ast |-> Cat(<<Bol, Str(<<"/", "c", "p", "a", "n", "e", "l">>)>>)],
     \* line 81: /^\/whm/i
     [source |-> "^\\/whm", flags |-> {"i"},
      ast |-> Cat(<<Bol, Str(<<"/", "w", "h", "m">>)>>)],
     \* line 82: /^\/cgi-bin/i
     [source |-> "^\\/cgi-bin", flags |-> {"i"},
      ast |-> Cat(<<Bol, Str(<<"/", "c", "g", "i", "-", "b", "i", "n">>)>>)],
     \* line 85: /^\/typo3/i
     [source |-> "^\\/typo3", flags |-> {"i"},
      ast |-> Cat(<<Bol, Str(<<"/", "t", "y", "p", "o", "3">>)>>)],
     \* line 86: /^\/joomla/i
     [source |-> "^\\/joomla", flags |-> {"i"},
      ast |-> Cat(<<Bol, Str(<<"/", "j", "o", "o", "m", "l", "a">>)>>)],
     \* line 87: /^\/drupal/i
     [source |-> "^\\/drupal", flags |-> {"i"},
      ast |-> Cat(<<Bol, Str(<<"/", "d", "r", "u", "p", "a", "l">>)>>)],
     \* line 88: /^\/magento/i
     [source |-> "^\\/magento", flags |-> {"i"},
      ast |-> Cat(<<Bol, Str(<<"/", "m", "a", "g", "e", "n", "t", "o">>)>>)],
     \* line 91: /\/\.env/i
     [source |-> "\\/\\.env", flags |-> {"i"},
      ast |-> Str(<<"/", ".", "e", "n", "v">>)],
     \* line 92: /\/\.git/i
     [source |-> "\\/\\.git", flags |-> {"i"},
      ast |-> Str(<<"/", ".", "g", "i", "t">>)],
     \* line 93: /\/\.sql$/i
     [source |-> "\\/\\.sql$", flags |-> {"i"},
      ast |-> Cat(<<Str(<<"/", ".", "s", "q", "l">>), Eol>>)],
     \* line 94: /\/\.well-known\/security\.txt/i
     [source |-> "\\/\\.well-known\\/security\\.txt", flags |-> {"i"},
      ast |-> Str(<<"/", ".", "w", "e", "l", "l", "-", "k", "n", "o", "w", "n", "/", "s", "e", "c", "u", "r", "i", "t", "y", ".", "t", "x", "t">>)],
     \* line 95: /\/(vendor|node_modules)\//i
     [source |-> "\\/(vendor|node_modules)\\/", flags |-> {"i"},
      ast |-> Cat(<<Str(<<"/">>), Alt(<<Str(<<"v", "e", "n", "d", "o", "r">>), Str(<<"n", "o", "d", "e", "_", "m", "o", "d", "u", "l", "e", "s">>)>>), Str(<<"/">>)>>)],
     \* line 98: /\.(bak|old|backup|orig|save|swp)$/i
     [source |-> "\\.(bak|old|backup|orig|save|swp)$", flags |-> {"i"},
      ast |-> Cat(<<Str(<<".">>), Alt(<<Str(<<"b", "a", "k">>), Str(<<"o", "l", "d">>), Str(<<"b", "a", "c", "k", "u", "p">>), Str(<<"o", "r", "i", "g">>), Str(<<"s", "a", "v", "e">>), Str(<<"s", "w", "p">>)>>), Eol>>)],
     \* line 101: /^\/config\.(js|json|yml|yaml|xml|ini|conf)$/i
     [source |-> "^\\/config\\.(js|json|yml|yaml|xml|ini|conf)$", flags |-> {"i"},
      ast |-> Cat(<<Bol, Str(<<"/", "c", "o", "n", "f", "i", "g", ".">>), Alt(<<Str(<<"j", "s">>), Str(<<"j", "s", "o", "n">>), Str(<<"y", "m", "l">>), Str(<<"y", "a", "m", "l">>), Str(<<"x", "m", "l">>), Str(<<"i", "n", "i">>), Str(<<"c", "o", "n", "f">>)>>), Eol>>)],
     \* line 102: /^\/settings\.(js|json|yml|yaml|xml)$/i
     [source |-> "^\\/settings\\.(js|json|yml|yaml|xml)$", flags |-> {"i"},
      ast |-> Cat(<<Bol, Str(<<"/", "s", "e", "t", "t", "i", "n", "g", "s", ".">>), Alt(<<Str(<<"j", "s">>), Str(<<"j", "s", "o", "n">>), Str(<<"y", "m", "l">>), Str(<<"y", "a", "m", "l">>), Str(<<"x", "m", "l">>)>>), Eol>>)],
     \* line 103: /^\/credentials\.(js|json|yml|yaml)$/i
     [source |-> "^\\/credentials\\.(js|json|yml|yaml)$", flags |-> {"i"},
      ast |-> Cat(<<Bol, Str(<<"/", "c", "r", "e", "d", "e", "n", "t", "i", "a", "l", "s", ".">>), Alt(<<Str(<<"j", "s">>), Str(<<"j", "s", "o", "n">>), Str(<<"y", "m", "l">>), Str(<<"y", "a", "m", "l">>)>>), Eol>>)],
     \* line 104: /^\/secrets\.(js|json|yml|yaml|env)$/i
     [source |-> "^\\/secrets\\.(js|json|yml|yaml|env)$", flags |-> {"i"},
      ast |-> Cat(<<Bol, Str(<<"/", "s", "e", "c", "r", "e", "t", "s", ".">>), Alt(<<Str(<<"j", "s">>), Str(<<"j", "s", "o", "n">>), Str(<<"y", "m", "l">>), Str(<<"y", "a", "m", "l">>), Str(<<"e", "n", "v">>)>>), Eol>>)],
     \* line 105: /^\/appsettings\.(json|yml|yaml)$/i
     [source |-> "^\\/appsettings\\.(json|yml|yaml)$", flags |-> {"i"},
      ast |-> Cat(<<Bol, Str(<<"/", "a", "p", "p", "s", "e", "t", "t", "i", "n", "g", "s", ".">>), Alt(<<Str(<<"j", "s", "o", "n">>), Str(<<"y", "m", "l">>), Str(<<"y", "a", "m", "l">>)>>), Eol>>)],
     \* line 106: /^\/application\.(yml|yaml|xml|properties)$/i
     [source |-> "^\\/application\\.(yml|yaml|xml|properties)$", flags |-> {"i"},
      ast |-> Cat(<<Bol, Str(<<"/", "a", "p", "p", "l", "i", "c", "a", "t", "i", "o", "n", ".">>), Alt(<<Str(<<"y", "m", "l">>), Str(<<"y", "a", "m", "l">>), Str(<<"x", "m", "l">>), Str(<<"p", "r", "o", "p", "e", "r", "t", "i", "e", "s">>)>>), Eol>>)],
     \* line 109: /^\/env\.js$/i
     [source |-> "^\\/env\\.js$", flags |-> {"i"},
      ast |-> Cat(<<Bol, Str(<<"/", "e", "n", "v", ".", "j", "s">>), Eol>>)],
     \* line 112: /^\/server-(status|info)$/i
     [source |-> "^\\/server-(status|info)$", flags |-> {"i"},
      ast |-> Cat(<<Bol, Str(<<"/", "s", "e", "r", "v", "e", "r", "-">>), Alt(<<Str(<<"s", "t", "a", "t", "u", "s">>), Str(<<"i", "n", "f", "o">>)>>), Eol>>)],
     \* line 113: /^\/info$/i
     [source |-> "^\\/info$", flags |-> {"i"},
      ast |-> Cat(<<Bol, Str(<<"/", "i", "n", "f", "o">>), Eol>>)],
     \* line 116: /^\/swagger\.(json|yml|yaml)$/i
     [source |-> "^\\/swagger\\.(json|yml|yaml)$", flags |-> {"i"},
      ast |-> Cat(<<Bol, Str(<<"/", "s", "w", "a", "g", "g", "e", "r", ".">>), Alt(<<Str(<<"j", "s", "o", "n">>), Str(<<"y", "m", "l">>), Str(<<"y", "a", "m", "l">>)>>), Eol>>)],
     \* line 117: /^\/api\/swagger\.(json|yml|yaml)$/i
     [source |-> "^\\/api\\/swagger\\.(json|yml|yaml)$", flags |-> {"i"},
      ast |-> Cat(<<Bol, Str(<<"/", "a", "p", "i", "/", "s", "w", "a", "g", "g", "e", "r", ".">>), Alt(<<Str(<<"j", "s", "o", "n">>), Str(<<"y", "m", "l">>), Str(<<"y", "a", "m", "l">>)>>), Eol>>)],
     \* line 120: /^\/_env/i
     [source |-> "^\\/_env", flags |-> {"i"},
      ast |-> Cat(<<Bol, Str(<<"/", "_", "e", "n", "v">>)>>)],
     \* line 121: /^\/config\//i
     [source |-> "^\\/config\\/", flags |-> {"i"},
      ast |-> Cat(<<Bol, Str(<<"/", "c", "o", "n", "f", "i", "g", "/">>)>>)],
     \* line 124: /^\/backup/i
     [source |-> "^\\/backup", flags |-> {"i"},
      ast |-> Cat(<<Bol, Str(<<"/", "b", "a", "c", "k", "u", "p">>)>>)],
     \* line 125: /^\/bk$/i
     [source |-> "^\\/bk$", flags |-> {"i"},
      ast |-> Cat(<<Bol, Str(<<"/", "b", "k">>), Eol>>)],
     \* line 126: /^\/bak$/i
     [source |-> "^\\/bak$", flags |-> {"i"},
      ast |-> Cat(<<Bol, Str(<<"/", "b", "a", "k">>), Eol>>)],
     \* line 127: /^\/bac$/i
     [source |-> "^\\/bac$", flags |-> {"i"},
      ast |-> Cat(<<Bol, Str(<<"/", "b", "a", "c">>), Eol>>)],
     \* line 128: /^\/dump/i
     [source |-> "^\\/dump", flags |-> {"i"},
      ast |-> Cat(<<Bol, Str(<<"/", "d", "u", "m", "p">>)>>)],
     \* line 131: /^\/db_/i
     [source |-> "^\\/db_", flags |-> {"i"},
      ast |-> Cat(<<Bol, Str(<<"/", "d", "b", "_">>)>>)],
     \* line 132: /^\/sql/i
     [source |-> "^\\/sql", flags |-> {"i"},
      ast |-> Cat(<<Bol, Str(<<"/", "s", "q", "l">>)>>)],
     \* line 135: /^\/shell/i
     [source |-> "^\\/shell", flags |-> {"i"},
      ast |-> Cat(<<Bol, Str(<<"/", "s", "h", "e", "l", "l">>)>>)],
     \* line 138: /^\/login$/i
     [source |-> "^\\/login$", flags |-> {"i"},
      ast |-> Cat(<<Bol, Str(<<"/", "l", "o", "g", "i", "n">>), Eol>>)],
     \* line 139: /^\/signin$/i
     [source |-> "^\\/signin$", flags |-> {"i"},
      ast |-> Cat(<<Bol, Str(<<"/", "s", "i", "g", "n", "i", "n">>), Eol>>)],
     \* line 140: /^\/register$/i
     [source |-> "^\\/register$", flags |-> {"i"},
      ast |-> Cat(<<Bol, Str(<<"/", "r", "e", "g", "i", "s", "t", "e", "r">>), Eol>>)],
     \* line 141: /^\/signup$/i
     [source |-> "^\\/signup$", flags |-> {"i"},
      ast |-> Cat(<<Bol, Str(<<"/", "s", "i", "g", "n", "u", "p">>), Eol>>)],
     \* line 142: /^\/dashboard$/i
     [source |-> "^\\/dashboard$", flags |-> {"i"},
      ast |-> Cat(<<Bol, Str(<<"/", "d", "a", "s", "h", "b", "o", "a", "r", "d">>), Eol>>)],
     \* line 143: /^\/user\/(login|signin|register|signup)/i
     [source |-> "^\\/user\\/(login|signin|register|signup)", flags |-> {"i"},
      ast |-> Cat(<<Bol, Str(<<"/", "u", "s", "e", "r", "/">>), Alt(<<Str(<<"l", "o", "g", "i", "n">>), Str(<<"s", "i", "g", "n", "i", "n">>), Str(<<"r", "e", "g", "i", "s", "t", "e", "r">>), Str(<<"s", "i", "g", "n", "u", "p">>)>>)>>)],
     \* line 146: /^\/old$/i
     [source |-> "^\\/old$", flags |-> {"i"},
      ast |-> Cat(<<Bol, Str(<<"/", "o", "l", "d">>), Eol>>)],
     \* line 147: /^\/new$/i
     [source |-> "^\\/new$", flags |-> {"i"},
      ast |-> Cat(<<Bol, Str(<<"/", "n", "e", "w">>), Eol>>)],
     \* line 148: /^\/test$/i
     [source |-> "^\\/test$", flags |-> {"i"},
      ast |-> Cat(<<Bol, Str(<<"/", "t", "e", "s", "t">>), Eol>>)],
     \* line 149: /^\/demo$/i
     [source |-> "^\\/demo$", flags |-> {"i"},
      ast |-> Cat(<<Bol, Str(<<"/", "d", "e", "m", "o">>), Eol>>)],
     \* line 150: /^\/www$/i
     [source |-> "^\\/www$", flags |-> {"i"},
      ast |-> Cat(<<Bol, Str(<<"/", "w", "w", "w">>), Eol>>)],
     \* line 151: /^\/main$/i
     [source |-> "^\\/main$", flags |-> {"i"},
      ast |-> Cat(<<Bol, Str(<<"/", "m", "a", "i", "n">>), Eol>>)],
     \* line 152: /^\/site$/i
     [source |-> "^\\/site$", flags |-> {"i"},
      ast |-> Cat(<<Bol, Str(<<"/", "s", "i", "t", "e">>), Eol>>)],
     \* line 153: /^\/shop$/i
     [source |-> "^\\/shop$", flags |-> {"i"},
      ast |-> Cat(<<Bol, Str(<<"/", "s", "h", "o", "p">>), Eol>>)],
     \* line 154: /^\/blog$/i
     [source |-> "^\\/blog$", flags |-> {"i"},
      ast |-> Cat(<<Bol, Str(<<"/", "b", "l", "o", "g">>), Eol>>)],
     \* line 155: /^\/bc$/i
     [source |-> "^\\/bc$", flags |-> {"i"},
      ast |-> Cat(<<Bol, Str(<<"/", "b", "c">>), Eol>>)],
     \* line 156: /^\/sitio$/i
     [source |-> "^\\/sitio$", flags |-> {"i"},
      ast |-> Cat(<<Bol, Str(<<"/", "s", "i", "t", "i", "o">>), Eol>>)],
     \* line 157: /^\/sito$/i
     [source |-> "^\\/sito$", flags |-> {"i"},
      ast |-> Cat(<<Bol, Str(<<"/", "s", "i", "t", "o">>), Eol>>)],
     \* line 158: /^\/oldsite$/i
     [source |-> "^\\/oldsite$", flags |-> {"i"},
      ast |-> Cat(<<Bol, Str(<<"/", "o", "l", "d", "s", "i", "t", "e">>), Eol>>)],
     \* line 159: /^\/old-site$/i
     [source |-> "^\\/old-site$", flags |-> {"i"},
      ast |-> Cat(<<Bol, Str(<<"/", "o", "l", "d", "-", "s", "i", "t", "e">>), Eol>>)],
     \* line 160: /^\/\d{4}$/i
     [source |-> "^\\/\\d{4}$", flags |-> {"i"},
      ast |-> Cat(<<Bol, Str(<<"/">>), Rep(Digit, 4), Eol>>)]
  >>

(***************************************************************************)
(* RegExp objects the caller passes in options.patterns and                *)
(* options.exclude.  A RegExp object is named by its position in RegExps:  *)
(* the built-ins first, the caller's objects after them.                   *)
(***************************************************************************)
CallerRegExps ==
  <<
     \* /^\/secret/i
     [source |-> "^\\/secret", flags |-> {"i"},
      ast |-> Cat(<<Bol, Str(<<"/", "s", "e", "c", "r", "e", "t">>)>>)],
     \* /^\/custom-admin/i
     [source |-> "^\\/custom-admin", flags |-> {"i"},
      ast |-> Cat(<<Bol, Str(<<"/", "c", "u", "s", "t", "o", "m", "-", "a", "d", "m", "i", "n">>)>>)],
     \* /\/secret/g
     [source |-> "\\/secret", flags |-> {"g"},
      ast |-> Str(<<"/", "s", "e", "c", "r", "e", "t">>)],
     \* /^\/internal/iy
     [source |-> "^\\/internal", flags |-> {"i", "y"},
      ast |-> Cat(<<Bol, Str(<<"/", "i", "n", "t", "e", "r", "n", "a", "l">>)>>)],
     \* /^\/admin(\.php)?$/i
     [source |-> "^\\/admin(\\.php)?$", flags |-> {"i"},
      ast |-> Cat(<<Bol, Str(<<"/", "a", "d", "m", "i", "n">>), Opt(Str(<<".", "p", "h", "p">>)), Eol>>)],
     \* /^\/admin$/i
     [source |-> "^\\/admin$", flags |-> {"i"},
      ast |-> Cat(<<Bol, Str(<<"/", "a", "d", "m", "i", "n">>), Eol>>)],
     \* /^\/secret/
     [source |-> "^\\/secret", flags |-> {},
      ast |-> Cat(<<Bol, Str(<<"/", "s", "e", "c", "r", "e", "t">>)>>)],
     \* /^\/nothing$/i
     [source |-> "^\\/nothing$", flags |-> {"i"},
      ast |-> Cat(<<Bol, Str(<<"/", "n", "o", "t", "h", "i", "n", "g">>), Eol>>)]
  >>

RegExps == ATTACK_PATTERNS \o CallerRegExps

BuiltIns == [k \in 1..Len(ATTACK_PATTERNS) |-> k]

Caller(k) == Len(ATTACK_PATTERNS) + k

\* The RegExp objects that keep state between calls of test.
Stateful == {id \in 1..Len(RegExps) : "g" \in RegExps[id].flags \/ "y" \in RegExps[id].flags}

(***************************************************************************)
(* HoneypotOptions: every field is optional.                               *)
(***************************************************************************)
Undefined == [has |-> FALSE]

Some(v) == [has |-> TRUE, v |-> v]

PatternsOptions ==
  {Undefined,
   Some(<<Caller(1), Caller(2)>>),
   Some(<<Caller(3)>>),
   Some(<<Caller(4)>>)}

ExcludeOptions ==
  {Undefined,
   Some(<<>>),
   Some(<<Caller(5)>>),
   Some(<<Caller(6)>>),
   Some(<<Caller(7), Caller(8)>>)}

LogOptions == {Undefined, Some(TRUE), Some(FALSE)}

StatusOptions == {Undefined, Some(404), Some(403)}

HoneypotOptions ==
  [patterns : PatternsOptions, exclude : ExcludeOptions,
   log : LogOptions, status : StatusOptions]

(***************************************************************************)
(* honeypot(options): the closure of one middleware instance.              *)
(***************************************************************************)
\* Mutant: an exclusion removes the RegExp object itself (exclude.includes).
IdentityExcluded(pattern, exclude) ==
  \E k \in 1..Len(exclude) : pattern = exclude[k]

SourceExcluded(pattern, exclude) ==
  \E k \in 1..Len(exclude) : RegExps[pattern].source = RegExps[exclude[k]].source

Merged(options) ==
  BuiltIns \o (IF options.patterns.has THEN options.patterns.v ELSE <<>>)

\* Mutant: the exclusions filter the built-ins only; the additions follow.
honeypotFiltersBuiltIns(options) ==
  LET additions == IF options.patterns.has THEN options.patterns.v ELSE <<>>
      filtered ==
        IF options.exclude.has /\ Len(options.exclude.v) > 0
        THEN SelectSeq(BuiltIns, LAMBDA pattern : ~SourceExcluded(pattern, options.exclude.v))
        ELSE BuiltIns
  IN  [patterns |-> filtered \o additions,
       shouldLog |-> IF options.log.has THEN options.log.v ELSE TRUE,
       status |-> IF options.status.has THEN options.status.v ELSE 410]

\* Mutant: options.status ?? 404.
honeypotDefault404(options) ==
  [patterns |-> SelectSeq(Merged(options), LAMBDA pattern :
                  ~(options.exclude.has /\ SourceExcluded(pattern, options.exclude.v))),
   shouldLog |-> IF options.log.has THEN options.log.v ELSE TRUE,
   status |-> IF options.status.has THEN options.status.v ELSE 404]

\* Mutant: options.log ?? false.
honeypotLogOff(options) ==
  [patterns |-> SelectSeq(Merged(options), LAMBDA pattern :
                  ~(options.exclude.has /\ SourceExcluded(pattern, options.exclude.v))),
   shouldLog |-> IF options.log.has THEN options.log.v ELSE FALSE,
   status |-> IF options.status.has THEN options.status.v ELSE 410]

honeypot(options) ==
  LET merged == Merged(options)
      filtered ==
        IF options.exclude.has /\ Len(options.exclude.v) > 0
        THEN SelectSeq(merged, LAMBDA pattern : ~SourceExcluded(pattern, options.exclude.v))
        ELSE merged
  IN  [patterns |-> filtered,
       shouldLog |-> IF options.log.has THEN options.log.v ELSE TRUE,
       status |-> IF options.status.has THEN options.status.v ELSE 410]

\* Mutant: the additions are pushed onto the array passed in, and the
\* exclusions filter that array.
honeypotCallInPlace(array, options) ==
  LET pushed == array \o (IF options.patterns.has THEN options.patterns.v ELSE <<>>)
      filtered ==
        IF options.exclude.has /\ Len(options.exclude.v) > 0
        THEN SelectSeq(pushed, LAMBDA pattern : ~SourceExcluded(pattern, options.exclude.v))
        ELSE pushed
  IN  [closure |-> [patterns |-> filtered,
                    shouldLog |-> IF options.log.has THEN options.log.v ELSE TRUE,
                    status |-> IF options.status.has THEN options.status.v ELSE 410],
       ATTACK_PATTERNS |-> pushed,
       options |-> options]

\* A call of honeypot(options) while the module's ATTACK_PATTERNS array holds
\* array: the closure it returns, and the array and the caller's options as
\* the call leaves them.  The spread copies into a new array and filter
\* returns a new array; neither writes to what it reads.
honeypotCall(array, options) ==
  LET merged == array \o (IF options.patterns.has THEN options.patterns.v ELSE <<>>)
      filtered ==
        IF options.exclude.has /\ Len(options.exclude.v) > 0
        THEN SelectSeq(merged, LAMBDA pattern : ~SourceExcluded(pattern, options.exclude.v))
        ELSE merged
  IN  [closure |-> [patterns |-> filtered,
                    shouldLog |-> IF options.log.has THEN options.log.v ELSE TRUE,
                    status |-> IF options.status.has THEN options.status.v ELSE 410],
       ATTACK_PATTERNS |-> array,
       options |-> options]

\* The heap once the instance has been made from options.
Created(options) ==
  [ATTACK_PATTERNS |-> honeypotCall(BuiltIns, options).ATTACK_PATTERNS,
   given |-> options,
   second |-> Undefined]

(***************************************************************************)
(* The request handler.                                                    *)
(***************************************************************************)
\* Mutant: the path is matched as it came (no normalization).
NormalizeSkipped(rawPath) == rawPath

RECURSIVE NormalizePairs(_)
\* Mutant: rawPath.replace(/\/\//g, '/'): every pair of '/' becomes one '/'.
NormalizePairs(rawPath) ==
  IF rawPath = <<>> THEN <<>>
  ELSE IF Head(rawPath) = "/" /\ Len(rawPath) > 1 /\ rawPath[2] = "/"
       THEN <<"/">> \o NormalizePairs(Tail(Tail(rawPath)))
       ELSE <<Head(rawPath)>> \o NormalizePairs(Tail(rawPath))

RECURSIVE Normalize(_)
\* rawPath.replace(/\/+/g, '/'): every run of '/' becomes one '/'.
Normalize(rawPath) ==
  IF rawPath = <<>> THEN <<>>
  ELSE IF Head(rawPath) = "/" /\ Len(rawPath) > 1 /\ rawPath[2] = "/"
       THEN Normalize(Tail(rawPath))
       ELSE <<Head(rawPath)>> \o Normalize(Tail(rawPath))

(***************************************************************************)
(* What a request brings: its path, its method, its proxy headers.         *)
(***************************************************************************)
MaxRun == 3

Run(n) == [k \in 1..n |-> "/"]

RECURSIVE Expand(_)
\* The paths that write every '/' of s as a run of 1..MaxRun '/'.
Expand(s) ==
  IF s = <<>> THEN {<<>>}
  ELSE IF Head(s) = "/"
       THEN {Run(n) \o rest : n \in 1..MaxRun, rest \in Expand(Tail(s))}
       ELSE {<<Head(s)>> \o rest : rest \in Expand(Tail(s))}

\* Request paths: paths of the test suite and the README, and neighbours of them.
Paths ==
  {<<"/">>,
   <<"/", "a", "d", "m", "i", "n">>,
   <<"/", "a", "p", "i", "/", "a", "d", "m", "i", "n">>,
   <<"/", "a", "d", "m", "i", "n", ".", "p", "h", "p">>,
   <<"/", "b", "l", "o", "g">>,
   <<"/", "b", "l", "o", "g", "s">>,
   <<"/", "w", "p", "-", "a", "d", "m", "i", "n", "/", "i", "n", "d", "e", "x", ".", "p", "h", "p">>,
   <<"/", "p", "h", "p", "m", "y", "a", "d", "m", "i", "n">>,
   <<"/", "a", "d", "m", "i", "n", "i", "s", "t", "r", "a", "t", "o", "r">>,
   <<"/", "s", "e", "c", "r", "e", "t">>,
   <<"/", "a", "p", "i", "/", "s", "e", "c", "r", "e", "t">>,
   <<"/", "c", "u", "s", "t", "o", "m", "-", "a", "d", "m", "i", "n">>,
   <<"/", "i", "n", "t", "e", "r", "n", "a", "l">>,
   <<"/", "a", "b", "c", "d">>}

\* Paths that are also requested with their separators written as runs.
BypassBases ==
  {<<"/", "b", "l", "o", "g">>,
   <<"/", "a", "d", "m", "i", "n">>,
   <<"/", "w", "p", "-", "a", "d", "m", "i", "n", "/", "i", "n", "d", "e", "x", ".", "p", "h", "p">>,
   <<"/", "s", "e", "c", "r", "e", "t">>}

RequestPaths == Paths \cup UNION {Expand(p) : p \in BypassBases}

Methods == {"GET", "POST"}

HeaderNames == {"cf-connecting-ip", "x-forwarded-for", "x-real-ip"}

NoHeaders == [h \in HeaderNames |-> Undefined]

Headers ==
  {NoHeaders,
   [NoHeaders EXCEPT !["cf-connecting-ip"] = Some(<<>>)],
   [NoHeaders EXCEPT !["cf-connecting-ip"] = Some(<<"1">>),
                     !["x-real-ip"] = Some(<<"4">>)],
   [NoHeaders EXCEPT !["x-forwarded-for"] = Some(<<" ", "2", ",", "3">>),
                     !["x-real-ip"] = Some(<<"4">>)]}

\* What the application's own handler answers once next() reaches it.
AppResponses ==
  {[status |-> 200, body |-> "OK"], [status |-> 404, body |-> "404 Not Found"]}

\* The strings the handler tests while serving RequestPaths.
TestedStrings == RequestPaths \cup {Normalize(p) : p \in RequestPaths}

\* The pairs of a RegExp object and such a string with RegExpTest true from
\* lastIndex 0, computed once.
Tabulated ==
  {t \in {<<id, s, RegExpTest(RegExps[id], 0, s).matched>> :
            id \in 1..Len(RegExps), s \in TestedStrings} : t[3]}

\* pattern.test(path) for the RegExp object id whose lastIndex holds li.  A
\* RegExp that is neither global nor sticky ignores lastIndex and leaves it, so
\* its result is the tabulated one.
Test(id, li, s) ==
  IF id \notin Stateful /\ s \in TestedStrings
  THEN [matched |-> <<id, s, TRUE>> \in Tabulated, lastIndex |-> li]
  ELSE RegExpTest(RegExps[id], li, s)

RECURSIVE SomeTest(_, _, _, _, _)
\* patterns.some((pattern) => pattern.test(path)) over pats[lo..hi]: the
\* patterns are tested in order up to the first that matches; every test that
\* runs leaves its lastIndex behind.  (The range is walked left half first,
\* then right half, which is the same order.)
SomeTest(pats, lo, hi, path, li) ==
  IF lo > hi THEN [hit |-> FALSE, li |-> li]
  ELSE IF lo = hi
  THEN LET id == pats[lo]
           t == Test(id, IF id \in DOMAIN li THEN li[id] ELSE 0, path)
       IN  [hit |-> t.matched,
            li |-> IF id \in DOMAIN li THEN [li EXCEPT ![id] = t.lastIndex] ELSE li]
  ELSE LET mid == (lo + hi) \div 2
           left == SomeTest(pats, lo, mid, path, li)
       IN  IF left.hit THEN left ELSE SomeTest(pats, mid + 1, hi, path, left.li)

RECURSIVE SplitFirst(_)
\* s.split(',')[0]
SplitFirst(s) ==
  IF s = <<>> \/ Head(s) = "," THEN <<>> ELSE <<Head(s)>> \o SplitFirst(Tail(s))

RECURSIVE TrimStart(_)
TrimStart(s) == IF s # <<>> /\ Head(s) = " " THEN TrimStart(Tail(s)) ELSE s

RECURSIVE TrimEnd(_)
TrimEnd(s) ==
  IF s # <<>> /\ s[Len(s)] = " " THEN TrimEnd(SubSeq(s, 1, Len(s) - 1)) ELSE s

Trim(s) == TrimEnd(TrimStart(s))

Unknown == <<"u", "n", "k", "n", "o", "w", "n">>

\* a || b on strings: the empty string and undefined are falsy.
Truthy(h) == h.has /\ h.v # <<>>

\* Mutant: x-real-ip is asked before x-forwarded-for.
ClientIpRealIpFirst(headers) ==
  LET cf == headers["cf-connecting-ip"]
      xff == headers["x-forwarded-for"]
      first == IF xff.has THEN Some(Trim(SplitFirst(xff.v))) ELSE Undefined
      xri == headers["x-real-ip"]
  IN  IF Truthy(cf) THEN cf.v
      ELSE IF Truthy(xri) THEN xri.v
      ELSE IF Truthy(first) THEN first.v
      ELSE Unknown

ClientIp(headers) ==
  LET cf == headers["cf-connecting-ip"]
      xff == headers["x-forwarded-for"]
      first == IF xff.has THEN Some(Trim(SplitFirst(xff.v))) ELSE Undefined
      xri == headers["x-real-ip"]
  IN  IF Truthy(cf) THEN cf.v
      ELSE IF Truthy(first) THEN first.v
      ELSE IF Truthy(xri) THEN xri.v
      ELSE Unknown

\* Mutant: the block is answered and next() is called all the same.
OutcomeFallsThrough(inst, c, some) ==
  [blocked |-> some.hit,
   console |-> IF some.hit /\ inst.shouldLog
               THEN <<[ip |-> ClientIp(c.headers), method |-> c.method,
                       path |-> Normalize(c.path)]>>
               ELSE <<>>,
   response |-> IF some.hit THEN Some([status |-> inst.status, body |-> ""]) ELSE Undefined,
   nextCalls |-> 1,
   li |-> some.li]

\* Mutant: only GET requests are blocked.
OutcomeOfGet(inst, c, some) ==
  LET hit == some.hit /\ c.method = "GET"
  IN  [blocked |-> hit,
       console |-> IF hit /\ inst.shouldLog
                   THEN <<[ip |-> ClientIp(c.headers), method |-> c.method,
                           path |-> Normalize(c.path)]>>
                   ELSE <<>>,
       response |-> IF hit THEN Some([status |-> inst.status, body |-> ""]) ELSE Undefined,
       nextCalls |-> IF hit THEN 0 ELSE 1,
       li |-> some.li]

\* The handler from the result of patterns.some on: what it logs, whether it
\* answers itself (c.body(null, status)) or calls next(), and the RegExp state
\* it leaves.
Outcome(inst, c, some) ==
  LET path == Normalize(c.path)
  IN  IF some.hit
      THEN [blocked |-> TRUE,
            console |-> IF inst.shouldLog
                        THEN <<[ip |-> ClientIp(c.headers), method |-> c.method, path |-> path]>>
                        ELSE <<>>,
            response |-> Some([status |-> inst.status, body |-> ""]),
            nextCalls |-> 0,
            li |-> some.li]
      ELSE [blocked |-> FALSE,
            console |-> <<>>,
            response |-> Undefined,
            nextCalls |-> 1,
            li |-> some.li]

\* The handler up to the result of patterns.some: the path is normalized, then
\* tested.
Matched(inst, li, rawPath) ==
  SomeTest(inst.patterns, 1, Len(inst.patterns), Normalize(rawPath), li)

\* One run of the middleware on context c = [path, method, headers] with the
\* instance's closure inst and the RegExp state li.
Handler(inst, li, c) == Outcome(inst, c, Matched(inst, li, c.path))

(***************************************************************************)
(* The requests in flight and the instance's state.                        *)
(***************************************************************************)
MaxInFlight == 2

Slots == 1..MaxInFlight

Idle == [pc |-> "idle"]

VARIABLES
  options,    \* the options honeypot was called with
  patterns,   \* closure: the effective rule list (RegExp objects, in order)
  shouldLog,  \* closure: options.log ?? true
  status,     \* closure: options.status ?? 410
  lastIndex,  \* the lastIndex slot of every global or sticky RegExp object
  reqs,       \* the requests in flight, by slot
  heap        \* what outlives a call of honeypot besides its closure: the
              \* module's ATTACK_PATTERNS array, the options as the caller
              \* passed them, and the closure of a second instance, if any

vars == <<options, patterns, shouldLog, status, lastIndex, reqs, heap>>

Closure == [patterns |-> patterns, shouldLog |-> shouldLog, status |-> status]

Init ==
  /\ options \in HoneypotOptions
  /\ patterns = honeypot(options).patterns
  /\ shouldLog = honeypot(options).shouldLog
  /\ status = honeypot(options).status
  /\ lastIndex = [id \in Stateful |-> 0]
  /\ reqs = [r \in Slots |-> Idle]
  /\ heap = Created(options)

\* The host calls the middleware with a request's context; the handler runs
\* to its return without yielding.  (some is bound once per path: what
\* patterns.some returns does not depend on the method or the headers.)
Middleware(r) ==
  /\ reqs[r].pc = "idle"
  /\ \E rawPath \in RequestPaths :
       \E some \in {Matched(Closure, lastIndex, rawPath)} :
           \E method \in Methods, headers \in Headers :
             LET c == [path |-> rawPath, method |-> method, headers |-> headers]
                 h == Outcome(Closure, c, some)
             IN  /\ lastIndex' = h.li
                 /\ reqs' = [reqs EXCEPT ![r] =
                      [pc |-> IF h.nextCalls > 0 THEN "next" ELSE "done",
                       path |-> rawPath,
                       li0 |-> lastIndex,
                       blocked |-> h.blocked,
                       console |-> h.console,
                       own |-> h.response,
                       nextCalls |-> h.nextCalls,
                       app |-> 0,
                       response |-> h.response]]
  /\ UNCHANGED <<options, patterns, shouldLog, status, heap>>

\* next(): the rest of the chain, the application's handler, answers.
Application(r) ==
  /\ reqs[r].pc = "next"
  /\ \E res \in AppResponses :
       reqs' = [reqs EXCEPT ![r].pc = "done",
                            ![r].app = @ + 1,
                            ![r].response = Some(res)]
  /\ UNCHANGED <<options, patterns, shouldLog, status, lastIndex, heap>>

\* The host sends the response; nothing of the request is kept.
Respond(r) ==
  /\ reqs[r].pc = "done"
  /\ reqs' = [reqs EXCEPT ![r] = Idle]
  /\ UNCHANGED <<options, patterns, shouldLog, status, lastIndex, heap>>

\* Requests handled one after another: each is taken in slot 1 and answered
\* before the next arrives; the other slots stay idle.
Next == Middleware(1) \/ Application(1) \/ Respond(1)

Spec == Init /\ [][Next]_vars

(***************************************************************************)
(* Properties.                                                             *)
(***************************************************************************)
\* The request in slot r has been through the middleware.
Handled(r) == reqs[r].pc \in {"next", "done"}

\* A RegExp object nobody has called test on.
FreshLastIndex == [id \in Stateful |-> 0]

\* The pattern of RegExp object id matches s: test on a fresh object is true.
Matches(id, s) == Test(id, 0, s).matched

\* options.status ?? 410 and options.log ?? true, read off the options.
ConfiguredStatus == IF options.status.has THEN options.status.v ELSE 410

LoggingEnabled == options.log.has => options.log.v

\* The empty-bodied answer of a block.
BlockResponse == Some([status |-> ConfiguredStatus, body |-> ""])

RECURSIVE SlashExpansion(_, _)
\* q is p with some of its '/' written as longer runs of '/'.
SlashExpansion(q, p) ==
  IF p = <<>> THEN q = <<>>
  ELSE IF q = <<>> THEN FALSE
  ELSE IF Head(p) = "/"
       THEN Head(q) = "/" /\ (SlashExpansion(Tail(q), Tail(p)) \/ SlashExpansion(Tail(q), p))
       ELSE Head(q) = Head(p) /\ SlashExpansion(Tail(q), Tail(p))

\* C1 (as claimed): a request is blocked if and only if at least one pattern of
\* the effective rule list matches its normalized path.
C1_BlockedIffSomePatternMatches ==
  \A r \in Slots :
    Handled(r) =>
      (reqs[r].blocked <=>
         \E k \in 1..Len(patterns) : Matches(patterns[k], Normalize(reqs[r].path)))

\* C2: a request whose path writes separators of p as runs of separators gets
\* the decision (block or allow, and the answer of a block) that p gets from
\* the same instance in the same state; under the default rules //blog,
\* ///admin and /wp-admin//index.php are blocked.
C2_SeparatorRunsDecideAlike ==
  \A r \in Slots :
    Handled(r) =>
      /\ \A p \in RequestPaths :
           (p # reqs[r].path /\ SlashExpansion(reqs[r].path, p)) =>
             LET h == Handler(Closure, reqs[r].li0,
                              [path |-> p, method |-> "GET", headers |-> NoHeaders])
             IN  h.blocked = reqs[r].blocked /\ h.response = reqs[r].own
      /\ ( /\ ~options.patterns.has
           /\ ~options.exclude.has
           /\ reqs[r].path \in {<<"/", "/", "b", "l", "o", "g">>,
                                 <<"/", "/", "/", "a", "d", "m", "i", "n">>,
                                 <<"/", "w", "p", "-", "a", "d", "m", "i", "n", "/", "/",
                                   "i", "n", "d", "e", "x", ".", "p", "h", "p">>} )
          => reqs[r].blocked

\* C2 witness: ///admin was requested and blocked with the default rules.
C2_Witness ==
  \E r \in Slots :
    /\ Handled(r)
    /\ ~options.patterns.has /\ ~options.exclude.has
    /\ reqs[r].path = <<"/", "/", "/", "a", "d", "m", "i", "n">>
    /\ reqs[r].blocked

\* What the caller passed, with the defaults of an absent option.
Additions == IF options.patterns.has THEN options.patterns.v ELSE <<>>

Exclusions == IF options.exclude.has THEN options.exclude.v ELSE <<>>

\* The source text of RegExp object id equals that of some exclusion.
Excluded(id) ==
  \E e \in 1..Len(Exclusions) : RegExps[id].source = RegExps[Exclusions[e]].source

Kept(id) == ~Excluded(id)

AdminPath == <<"/", "a", "d", "m", "i", "n">>

PhpMyAdminPath == <<"/", "p", "h", "p", "m", "y", "a", "d", "m", "i", "n">>

AdministratorPath == <<"/", "a", "d", "m", "i", "n", "i", "s", "t", "r", "a", "t", "o", "r">>

SecretPath == <<"/", "s", "e", "c", "r", "e", "t">>

\* C3 (as claimed): the effective rule list is the built-ins without the
\* excluded ones, followed by all the additions: the exclusions apply to the
\* built-ins only.
C3_ExclusionsSpareAdditions ==
  patterns = SelectSeq(BuiltIns, Kept) \o Additions

\* C3 (amended): the effective rule list is the built-ins without the excluded
\* ones, in their order, followed by the additions without the excluded ones,
\* in their order: an exclusion removes every rule of its source text, a
\* built-in or an addition, and no request changes the list.
C3_ExclusionsFilterMergedList ==
  patterns = SelectSeq(BuiltIns, Kept) \o SelectSeq(Additions, Kept)

\* C3 witness: an exclusion with the source text of an addition was given, the
\* addition is not in the list, and a request to /secret went through.
C3_Witness ==
  \E r \in Slots :
    /\ options.patterns = Some(<<Caller(1), Caller(2)>>)
    /\ options.exclude = Some(<<Caller(7), Caller(8)>>)
    /\ patterns = BuiltIns \o <<Caller(2)>>
    /\ reqs[r].pc = "done"
    /\ reqs[r].path = SecretPath
    /\ ~reqs[r].blocked

\* C4: a built-in is in the effective rule list exactly when no exclusion has
\* its source text; a blocked request is matched by a rule that is not
\* excluded; with the built-in admin pattern ^\/admin(\.php)?$ excluded, /admin
\* reaches the application and /phpmyadmin is still blocked.
C4_ExactSourceExclusion ==
  /\ LET effective == {patterns[k] : k \in 1..Len(patterns)}
     IN  \A b \in 1..Len(BuiltIns) : BuiltIns[b] \in effective <=> Kept(BuiltIns[b])
  /\ \A r \in Slots :
       (Handled(r) /\ options.exclude = Some(<<Caller(5)>>)) =>
         /\ Normalize(reqs[r].path) = AdminPath =>
              /\ ~reqs[r].blocked
              /\ reqs[r].nextCalls = 1
              /\ reqs[r].pc = "done" => reqs[r].response.v \in AppResponses
         /\ Normalize(reqs[r].path) = PhpMyAdminPath =>
              /\ reqs[r].blocked
              /\ reqs[r].app = 0

\* C4 witness: with the built-in admin pattern excluded, /admin was answered
\* by the application.
C4_Witness ==
  \E r \in Slots :
    /\ options.exclude = Some(<<Caller(5)>>)
    /\ reqs[r].pc = "done"
    /\ reqs[r].path = AdminPath
    /\ ~reqs[r].blocked
    /\ reqs[r].app = 1

\* C5 (as claimed): with exclude: [/^\/admin$/i], a request to /admin reaches
\* the application, and /phpmyadmin and /administrator are still blocked.
C5_DocumentedExcludeAllowsAdmin ==
  \A r \in Slots :
    (Handled(r) /\ options.exclude = Some(<<Caller(6)>>)) =>
      /\ Normalize(reqs[r].path) = AdminPath => ~reqs[r].blocked
      /\ Normalize(reqs[r].path) \in {PhpMyAdminPath, AdministratorPath} => reqs[r].blocked

\* C6: a blocked request is answered with the configured status, the status
\* option when given and 410 otherwise, and an empty body, and that is the
\* response the client gets; the status is one of 410, 404, 403.
C6_BlockedGetsConfiguredStatus ==
  \A r \in Slots :
    (Handled(r) /\ reqs[r].blocked) =>
      /\ reqs[r].own = BlockResponse
      /\ reqs[r].response = BlockResponse
      /\ reqs[r].response.v.status \in {410, 404, 403}
      /\ reqs[r].response.v.body = ""

\* C6 witness: a request was blocked with status 403 configured.
C6_Witness ==
  \E r \in Slots :
    /\ options.status = Some(403)
    /\ reqs[r].pc = "done"
    /\ reqs[r].blocked
    /\ reqs[r].response = Some([status |-> 403, body |-> ""])

\* C7: a handled request is either allowed: next() was called once, the
\* middleware made no response, and the response is the application's; or
\* blocked: next() was not called, the application did not run, and the
\* response is the block.
C7_NextOrBlock ==
  \A r \in Slots :
    Handled(r) =>
      \/ /\ ~reqs[r].blocked
         /\ reqs[r].nextCalls = 1
         /\ reqs[r].own = Undefined
         /\ \/ reqs[r].pc = "next" /\ reqs[r].app = 0 /\ reqs[r].response = Undefined
            \/ /\ reqs[r].pc = "done"
               /\ reqs[r].app = 1
               /\ reqs[r].response.has
               /\ reqs[r].response.v \in AppResponses
      \/ /\ reqs[r].blocked
         /\ reqs[r].nextCalls = 0
         /\ reqs[r].app = 0
         /\ reqs[r].pc = "done"
         /\ reqs[r].own = BlockResponse
         /\ reqs[r].response = reqs[r].own

\* C7 witness: an allowed request got the application's 200 OK.
C7_Witness ==
  \E r \in Slots :
    /\ reqs[r].pc = "done"
    /\ ~reqs[r].blocked
    /\ reqs[r].nextCalls = 1
    /\ reqs[r].response = Some([status |-> 200, body |-> "OK"])

\* C8 (as claimed): after any sequence of earlier requests, the decision for a
\* path is the decision of a fresh instance of the same configuration.
C8_DecidesAsFreshInstance ==
  \A r \in Slots :
    Handled(r) =>
      reqs[r].blocked = Matched(honeypot(options), FreshLastIndex, reqs[r].path).hit

\* C9: whatever its method and its proxy headers, and with logging on or off,
\* a request gets the decision and the status that a GET without headers for
\* the same path gets with logging off from the same rules in the same state.
C9_DecisionReadsPathOnly ==
  \A r \in Slots :
    Handled(r) =>
      LET h == Handler([Closure EXCEPT !.shouldLog = FALSE], reqs[r].li0,
                       [path |-> reqs[r].path, method |-> "GET", headers |-> NoHeaders])
      IN  /\ reqs[r].blocked = h.blocked
          /\ reqs[r].own = h.response
          /\ reqs[r].nextCalls = h.nextCalls

\* C9 witness: a POST with proxy headers was blocked with logging on.
C9_Witness ==
  \E r \in Slots :
    /\ Handled(r)
    /\ reqs[r].blocked
    /\ Len(reqs[r].console) = 1
    /\ reqs[r].console[1].method = "POST"
    /\ reqs[r].console[1].ip = <<"2">>

\* C10: a request leaves one log record when it is blocked and the log option
\* is absent or true, and none otherwise.
C10_LogsBlockedWhenEnabled ==
  \A r \in Slots :
    Handled(r) =>
      Len(reqs[r].console) = IF reqs[r].blocked /\ LoggingEnabled THEN 1 ELSE 0

\* C10 witness: a blocked request was logged with the log option absent.
C10_Witness ==
  \E r \in Slots :
    /\ Handled(r)
    /\ ~options.log.has
    /\ reqs[r].blocked
    /\ Len(reqs[r].console) = 1

(***************************************************************************)
(* The default configuration, honeypot(), under probe: one instance, one   *)
(* request at a time, and the request's method and headers kept with it.   *)
(***************************************************************************)
DefaultOptions ==
  [patterns |-> Undefined, exclude |-> Undefined, log |-> Undefined, status |-> Undefined]

CfConnectingIps == {Undefined, Some(<<>>), Some(<<"1">>)}

XForwardedFors ==
  {Undefined, Some(<<>>), Some(<<" ", "2", " ", ",", "3">>), Some(<<" ", ",", "3">>)}

XRealIps == {Undefined, Some(<<>>), Some(<<"4">>)}

\* The proxy headers of a probe: each absent, empty, or with a value.
ProxyHeaders ==
  {[h \in HeaderNames |->
      CASE h = "cf-connecting-ip" -> cf
        [] h = "x-forwarded-for" -> xff
        [] OTHER -> xri] :
     cf \in CfConnectingIps, xff \in XForwardedFors, xri \in XRealIps}

\* Root-level names of fully anchored built-ins, and the same names nested or extended.
AnchoredPaths ==
  {<<"/", "a", "d", "m", "i", "n">>,
   <<"/", "b", "l", "o", "g">>,
   <<"/", "l", "o", "g", "i", "n">>,
   <<"/", "u", "p", "l", "o", "a", "d", "s">>,
   <<"/", "i", "m", "a", "g", "e", "s">>,
   <<"/", "m", "o", "d", "u", "l", "e", "s">>,
   <<"/", "c", "o", "n", "f", "i", "g", ".", "j", "s", "o", "n">>,
   <<"/", "a", "p", "i", "/", "a", "d", "m", "i", "n">>,
   <<"/", "b", "l", "o", "g", "s">>,
   <<"/", "a", "p", "i", "/", "a", "u", "t", "h", "/", "l", "o", "g", "i", "n">>,
   <<"/", "a", "p", "i", "/", "u", "p", "l", "o", "a", "d", "s">>,
   <<"/", "a", "p", "i", "/", "i", "m", "a", "g", "e", "s">>,
   <<"/", "a", "p", "i", "/", "m", "o", "d", "u", "l", "e", "s">>,
   <<"/", "a", "p", "i", "/", "c", "o", "n", "f", "i", "g", ".", "j", "s", "o", "n">>,
   <<"/", "m", "a", "i", "n", ".", "j", "s">>}

\* Year folders of the test suite and their neighbours.
NamedYearPaths ==
  {<<"/", "2", "0", "1", "7">>,
   <<"/", "2", "0", "2", "4">>,
   <<"/", "1", "2", "3", "4", "5">>,
   <<"/", "1", "2", "3">>,
   <<"/", "a", "b", "c", "d">>}

MaxDigits == 5

\* '/' followed by 1..MaxDigits digits.
DigitPaths ==
  {<<"/">> \o ds : ds \in UNION {[1..n -> {"0", "9"}] : n \in 1..MaxDigits}}

\* Paths that carry a signature meant for any depth.
Signatures ==
  {<<"/", "w", "p", "-", "i", "n", "c", "l", "u", "d", "e", "s", "/", "j", "s", "/", "j", "q", "u", "e", "r", "y", ".", "j", "s">>,
   <<"/", "w", "p", "-", "c", "o", "n", "t", "e", "n", "t", "/", "u", "p", "l", "o", "a", "d", "s", "/", "i", "m", "a", "g", "e", ".", "p", "n", "g">>,
   <<"/", "w", "p", "-", "a", "d", "m", "i", "n">>,
   <<"/", "w", "p", "-", "a", "d", "m", "i", "n", "/", "x">>,
   <<"/", "a", "d", "m", "i", "n", "/", "u", "p", "l", "o", "a", "d", "s">>,
   <<"/", "a", "d", "m", "i", "n", "/", "e", "d", "i", "t", "o", "r">>,
   <<"/", "a", "d", "m", "i", "n", "/", "c", "o", "n", "t", "r", "o", "l", "l", "e", "r">>,
   <<"/", "w", "l", "w", "m", "a", "n", "i", "f", "e", "s", "t", ".", "x", "m", "l">>}

MaxDepth == 2

RECURSIVE Nest(_, _)
\* p under n directories.
Nest(p, n) == IF n = 0 THEN p ELSE <<"/", "d">> \o Nest(p, n - 1)

NestedPaths ==
  {Nest(p, n) : p \in Signatures, n \in 0..MaxDepth}
    \cup {<<"/", "f", "o", "o", "/", "w", "p", "-", "a", "d", "m", "i", "n", "/", "i", "n", "d", "e", "x", ".", "p", "h", "p">>,
          <<"/", "f", "o", "o", "w", "l", "w", "m", "a", "n", "i", "f", "e", "s", "t", ".", "x", "m", "l">>}

\* Sensitive files and backup folders the README lists, with instances of *.sql.
ReadmePaths ==
  {<<"/", ".", "e", "n", "v">>,
   <<"/", ".", "g", "i", "t">>,
   <<"/", ".", "s", "q", "l">>,
   <<"/", "d", "a", "t", "a", ".", "s", "q", "l">>,
   <<"/", "d", "b", "/", "d", "a", "t", "a", ".", "s", "q", "l">>,
   <<"/", "d", "u", "m", "p", ".", "s", "q", "l">>,
   <<"/", "n", "o", "d", "e", "_", "m", "o", "d", "u", "l", "e", "s">>,
   <<"/", "n", "o", "d", "e", "_", "m", "o", "d", "u", "l", "e", "s", "/", "x">>,
   <<"/", "d", "a", "t", "a", "b", "a", "s", "e", ".", "y", "m", "l">>,
   <<"/", "b", "a", "c", "k", "u", "p">>,
   <<"/", "o", "l", "d">>,
   <<"/", "t", "e", "s", "t">>,
   <<"/", "d", "e", "m", "o">>,
   <<"/", "t", "e", "m", "p">>}

\* Paths that are also probed with their letters in the other case.
CaseBases ==
  {<<"/", "w", "p", "-", "a", "d", "m", "i", "n">>,
   <<"/", "a", "d", "m", "i", "n">>,
   <<"/", "b", "l", "o", "g">>,
   <<"/", "b", "l", "o", "g", "s">>,
   <<"/", "a", "p", "i", "/", "a", "d", "m", "i", "n">>,
   <<"/", "a", "l", "f", "a", "_", "d", "a", "t", "a">>,
   <<"/", "c", "o", "n", "f", "i", "g", ".", "j", "s", "o", "n">>,
   <<"/", "m", "a", "i", "n", ".", "j", "s">>,
   <<"/", "c", "9", "9", ".", "p", "h", "p">>}

\* ch in the other case, if it is a letter.
FlipCase(ch) ==
  IF \E k \in 1..26 : LowerCase[k] = ch
  THEN UpperCase[CHOOSE k \in 1..26 : LowerCase[k] = ch]
  ELSE IF \E k \in 1..26 : UpperCase[k] = ch
       THEN LowerCase[CHOOSE k \in 1..26 : UpperCase[k] = ch]
       ELSE ch

IsLower(ch) == \E k \in 1..26 : LowerCase[k] = ch

\* p with all its letters in upper case, with its first letter in upper case,
\* and with one of its letters flipped.
CaseVariants(p) ==
  {p,
   [k \in 1..Len(p) |-> IF IsLower(p[k]) THEN FlipCase(p[k]) ELSE p[k]],
   [k \in 1..Len(p) |-> IF k = 2 THEN FlipCase(p[k]) ELSE p[k]]}
    \cup {[k \in 1..Len(p) |-> IF k = j THEN FlipCase(p[k]) ELSE p[k]] : j \in 1..Len(p)}

CasePaths == UNION {CaseVariants(p) : p \in CaseBases}

ProbePaths ==
  AnchoredPaths \cup NamedYearPaths \cup DigitPaths \cup NestedPaths \cup ReadmePaths
    \cup CasePaths

\* The pairs of a built-in RegExp object and one of CasePaths, normalized,
\* with RegExpTest true from lastIndex 0, computed once.
CaseTabulated ==
  {t \in {<<id, p, RegExpTest(RegExps[id], 0, Normalize(p)).matched>> :
            id \in 1..Len(ATTACK_PATTERNS), p \in CasePaths} : t[3]}

DefaultInit ==
  /\ options = DefaultOptions
  /\ patterns = honeypot(options).patterns
  /\ shouldLog = honeypot(options).shouldLog
  /\ status = honeypot(options).status
  /\ lastIndex = [id \in Stateful |-> 0]
  /\ reqs = [r \in Slots |-> Idle]
  /\ heap = Created(options)

\* The middleware handles a probe; the request keeps what it came with.
Probe(r) ==
  /\ reqs[r].pc = "idle"
  /\ \E rawPath \in ProbePaths :
       \E some \in {Matched(Closure, lastIndex, rawPath)} :
           \E method \in Methods, headers \in ProxyHeaders :
             LET c == [path |-> rawPath, method |-> method, headers |-> headers]
                 h == Outcome(Closure, c, some)
             IN  /\ lastIndex' = h.li
                 /\ reqs' = [reqs EXCEPT ![r] =
                      [pc |-> IF h.nextCalls > 0 THEN "next" ELSE "done",
                       path |-> rawPath,
                       method |-> method,
                       headers |-> headers,
                       li0 |-> lastIndex,
                       blocked |-> h.blocked,
                       console |-> h.console,
                       own |-> h.response,
                       nextCalls |-> h.nextCalls,
                       app |-> 0,
                       response |-> h.response]]
  /\ UNCHANGED <<options, patterns, shouldLog, status, heap>>

DefaultNext == Probe(1) \/ Application(1) \/ Respond(1)

DefaultSpec == DefaultInit /\ [][DefaultNext]_vars

\* A header that is present, and one that is present with a value.
Present(h) == h.has

NonEmpty(h) == h.has /\ h.v # <<>>

\* The first comma-separated value of x-forwarded-for, trimmed.
FirstForwarded(headers) ==
  IF headers["x-forwarded-for"].has
  THEN Some(Trim(SplitFirst(headers["x-forwarded-for"].v)))
  ELSE Undefined

\* C11 (as claimed): the logged client is cf-connecting-ip if that header is
\* present, else the first value of x-forwarded-for if that header is present,
\* else x-real-ip if present, else unknown, and unknown only when none of the
\* three is present.
C11_FirstPresentHeader ==
  \A r \in Slots :
    (Handled(r) /\ Len(reqs[r].console) = 1) =>
      LET hs == reqs[r].headers
          ip == reqs[r].console[1].ip
      IN  /\ Present(hs["cf-connecting-ip"]) => ip = hs["cf-connecting-ip"].v
          /\ (~Present(hs["cf-connecting-ip"]) /\ Present(hs["x-forwarded-for"])) =>
                ip = FirstForwarded(hs).v
          /\ (ip = Unknown) => \A n \in HeaderNames : ~Present(hs[n])

\* C11 (amended): the logged client is the first non-empty of: the value of
\* cf-connecting-ip, the trimmed first comma-separated value of
\* x-forwarded-for, the value of x-real-ip; it is unknown exactly when all
\* three are absent or empty.
C11_FirstNonEmptyHeader ==
  \A r \in Slots :
    (Handled(r) /\ Len(reqs[r].console) = 1) =>
      LET hs == reqs[r].headers
          cf == hs["cf-connecting-ip"]
          first == FirstForwarded(hs)
          xri == hs["x-real-ip"]
          ip == reqs[r].console[1].ip
      IN  /\ NonEmpty(cf) => ip = cf.v
          /\ (~NonEmpty(cf) /\ NonEmpty(first)) => ip = first.v
          /\ (~NonEmpty(cf) /\ ~NonEmpty(first) /\ NonEmpty(xri)) => ip = xri.v
          /\ (ip = Unknown) <=> (~NonEmpty(cf) /\ ~NonEmpty(first) /\ ~NonEmpty(xri))

\* C11 witness: a blocked probe with an empty cf-connecting-ip, a first
\* forwarded value and an x-real-ip was logged under the forwarded value.
C11_Witness ==
  \E r \in Slots :
    /\ Handled(r)
    /\ reqs[r].blocked
    /\ reqs[r].headers["cf-connecting-ip"] = Some(<<>>)
    /\ reqs[r].headers["x-forwarded-for"] = Some(<<" ", "2", " ", ",", "3">>)
    /\ reqs[r].headers["x-real-ip"] = Some(<<"4">>)
    /\ reqs[r].console = <<[ip |-> <<"2">>, method |-> reqs[r].method,
                            path |-> reqs[r].path]>>

RootNames ==
  {<<"/", "a", "d", "m", "i", "n">>,
   <<"/", "b", "l", "o", "g">>,
   <<"/", "l", "o", "g", "i", "n">>,
   <<"/", "u", "p", "l", "o", "a", "d", "s">>,
   <<"/", "i", "m", "a", "g", "e", "s">>,
   <<"/", "m", "o", "d", "u", "l", "e", "s">>,
   <<"/", "c", "o", "n", "f", "i", "g", ".", "j", "s", "o", "n">>}

NestedOrExtendedNames ==
  {<<"/", "a", "p", "i", "/", "a", "d", "m", "i", "n">>,
   <<"/", "b", "l", "o", "g", "s">>,
   <<"/", "a", "p", "i", "/", "a", "u", "t", "h", "/", "l", "o", "g", "i", "n">>,
   <<"/", "a", "p", "i", "/", "u", "p", "l", "o", "a", "d", "s">>,
   <<"/", "a", "p", "i", "/", "i", "m", "a", "g", "e", "s">>,
   <<"/", "a", "p", "i", "/", "m", "o", "d", "u", "l", "e", "s">>,
   <<"/", "a", "p", "i", "/", "c", "o", "n", "f", "i", "g", ".", "j", "s", "o", "n">>,
   <<"/", "m", "a", "i", "n", ".", "j", "s">>}

\* C12: with the default rules /admin, /blog, /login, /uploads, /images,
\* /modules and /config.json are blocked, and /api/admin, /blogs,
\* /api/auth/login, /api/uploads, /api/images, /api/modules, /api/config.json
\* and /main.js are passed to the application, which answers them.
C12_AnchoredNamesBlockAtRootOnly ==
  \A r \in Slots :
    Handled(r) =>
      /\ reqs[r].path \in RootNames =>
           reqs[r].blocked /\ reqs[r].app = 0
      /\ reqs[r].path \in NestedOrExtendedNames =>
           /\ ~reqs[r].blocked
           /\ reqs[r].nextCalls = 1
           /\ reqs[r].pc = "done" => reqs[r].response.v \in AppResponses

\* C12 witness: /api/config.json was answered by the application.
C12_Witness ==
  \E r \in Slots :
    /\ reqs[r].pc = "done"
    /\ reqs[r].path = <<"/", "a", "p", "i", "/", "c", "o", "n", "f", "i", "g", ".", "j", "s", "o", "n">>
    /\ ~reqs[r].blocked
    /\ reqs[r].app = 1

\* p is '/' followed by decimal digits only.
IsDigitPath(p) ==
  /\ Len(p) >= 2
  /\ p[1] = "/"
  /\ \A k \in 2..Len(p) : p[k] \in {"0", "1", "2", "3", "4", "5", "6", "7", "8", "9"}

\* C13: with the default rules a path of '/' and digits only is blocked exactly
\* when it has four digits; /abcd is allowed.
C13_FourDigitYearFolders ==
  \A r \in Slots :
    Handled(r) =>
      /\ IsDigitPath(reqs[r].path) => (reqs[r].blocked <=> Len(reqs[r].path) = 5)
      /\ reqs[r].path = <<"/", "a", "b", "c", "d">> => ~reqs[r].blocked

\* C13 witness: /12345 was passed on and answered by the application.
C13_Witness ==
  \E r \in Slots :
    /\ reqs[r].pc = "done"
    /\ reqs[r].path = <<"/", "1", "2", "3", "4", "5">>
    /\ ~reqs[r].blocked
    /\ reqs[r].app = 1

\* sub occurs in s; s ends with sub.
Contains(s, sub) ==
  \E i \in 1..(Len(s) - Len(sub) + 1) : SubSeq(s, i, i + Len(sub) - 1) = sub

EndsWith(s, sub) ==
  Len(s) >= Len(sub) /\ SubSeq(s, Len(s) - Len(sub) + 1, Len(s)) = sub

\* C14: with the default rules every path that contains /wp-includes/,
\* /wp-content/, /wp-admin, /admin/uploads, /admin/editor or
\* /admin/controller, or that ends in wlwmanifest.xml, is blocked, whatever
\* comes before.
C14_SignaturesBlockAtAnyDepth ==
  \A r \in Slots :
    LET signed ==
          \/ \E sub \in {<<"/", "w", "p", "-", "i", "n", "c", "l", "u", "d", "e", "s", "/">>,
                          <<"/", "w", "p", "-", "c", "o", "n", "t", "e", "n", "t", "/">>,
                          <<"/", "w", "p", "-", "a", "d", "m", "i", "n">>,
                          <<"/", "a", "d", "m", "i", "n", "/", "u", "p", "l", "o", "a", "d", "s">>,
                          <<"/", "a", "d", "m", "i", "n", "/", "e", "d", "i", "t", "o", "r">>,
                          <<"/", "a", "d", "m", "i", "n", "/", "c", "o", "n", "t", "r", "o", "l", "l", "e", "r">>} :
                 Contains(reqs[r].path, sub)
          \/ EndsWith(reqs[r].path, <<"w", "l", "w", "m", "a", "n", "i", "f", "e", "s", "t", ".", "x", "m", "l">>)
    IN  (Handled(r) /\ signed) =>
          reqs[r].blocked /\ reqs[r].app = 0 /\ reqs[r].response = BlockResponse

\* C14 witness: /foo/wp-admin/index.php was blocked.
C14_Witness ==
  \E r \in Slots :
    /\ Handled(r)
    /\ reqs[r].path = <<"/", "f", "o", "o", "/", "w", "p", "-", "a", "d", "m", "i", "n", "/", "i", "n", "d", "e", "x", ".", "p", "h", "p">>
    /\ reqs[r].blocked
    /\ reqs[r].response = Some([status |-> 410, body |-> ""])

\* C15 (as claimed): with the default rules /.env, /.git, every path ending in
\* .sql, /node_modules, /database.yml, /backup, /old, /test, /demo and /temp
\* are blocked.
C15_ReadmeListIsBlocked ==
  \A r \in Slots :
    LET listed ==
          \/ reqs[r].path \in
               {<<"/", ".", "e", "n", "v">>,
                <<"/", ".", "g", "i", "t">>,
                <<"/", "n", "o", "d", "e", "_", "m", "o", "d", "u", "l", "e", "s">>,
                <<"/", "d", "a", "t", "a", "b", "a", "s", "e", ".", "y", "m", "l">>,
                <<"/", "b", "a", "c", "k", "u", "p">>,
                <<"/", "o", "l", "d">>,
                <<"/", "t", "e", "s", "t">>,
                <<"/", "d", "e", "m", "o">>,
                <<"/", "t", "e", "m", "p">>}
          \/ EndsWith(reqs[r].path, <<".", "s", "q", "l">>)
    IN  (Handled(r) /\ listed) => reqs[r].blocked

\* C16 (as claimed, for configurations without exclusions): a request whose
\* normalized path is matched by some pattern of the patterns option is
\* blocked with the configured status.
C16_AdditionsBlock ==
  \A r \in Slots :
    ( /\ Handled(r)
      /\ Exclusions = <<>>
      /\ \E k \in 1..Len(Additions) : Matches(Additions[k], Normalize(reqs[r].path)) )
    => reqs[r].blocked /\ reqs[r].response = BlockResponse

\* C17: the normalized path of a request is left as it is by normalization and
\* has no two '/' in a row, and the request got the decision that its
\* normalized path gets when it is normalized and tested again.
C17_NormalizationIdempotent ==
  \A r \in Slots :
    Handled(r) =>
      LET n == Normalize(reqs[r].path)
      IN  /\ Normalize(n) = n
          /\ \A k \in 1..(Len(n) - 1) : ~(n[k] = "/" /\ n[k + 1] = "/")
          /\ Matched(Closure, reqs[r].li0, n).hit = reqs[r].blocked

\* C17 witness: ///admin was handled, and normalizes to /admin.
C17_Witness ==
  \E r \in Slots :
    /\ Handled(r)
    /\ reqs[r].path = <<"/", "/", "/", "a", "d", "m", "i", "n">>
    /\ Normalize(reqs[r].path) = AdminPath
    /\ Normalize(Normalize(reqs[r].path)) = AdminPath
    /\ options.exclude = Some(<<Caller(5)>>)
    /\ ~reqs[r].blocked

(***************************************************************************)
(* Requests in flight together.  The handler runs from its first line to   *)
(* its return without awaiting, so a request's handler step is atomic; the *)
(* requests interleave between arriving, the application answering, and    *)
(* the response being sent.                                                *)
(***************************************************************************)
ConcurrentOptions ==
  {[DefaultOptions EXCEPT !.patterns = p] :
     p \in {Undefined, Some(<<Caller(1), Caller(2)>>), Some(<<Caller(3)>>)}}

ConcurrentPaths ==
  {<<"/", "a", "d", "m", "i", "n">>,
   <<"/", "s", "e", "c", "r", "e", "t">>,
   <<"/", "a", "p", "i", "/", "s", "e", "c", "r", "e", "t">>,
   <<"/", "b", "l", "o", "g", "s">>}

ConcurrentHeaders ==
  {NoHeaders, [NoHeaders EXCEPT !["cf-connecting-ip"] = Some(<<"1">>)]}

ConcurrentInit ==
  /\ options \in ConcurrentOptions
  /\ patterns = honeypot(options).patterns
  /\ shouldLog = honeypot(options).shouldLog
  /\ status = honeypot(options).status
  /\ lastIndex = [id \in Stateful |-> 0]
  /\ reqs = [r \in Slots |-> Idle]
  /\ heap = Created(options)

\* A request arrives in a free slot and the middleware handles it, whatever
\* the other slots hold.
Arrive(r) ==
  /\ reqs[r].pc = "idle"
  /\ \E rawPath \in ConcurrentPaths :
       \E some \in {Matched(Closure, lastIndex, rawPath)} :
           \E method \in Methods, headers \in ConcurrentHeaders :
             LET c == [path |-> rawPath, method |-> method, headers |-> headers]
                 h == Outcome(Closure, c, some)
             IN  /\ lastIndex' = h.li
                 /\ reqs' = [reqs EXCEPT ![r] =
                      [pc |-> IF h.nextCalls > 0 THEN "next" ELSE "done",
                       path |-> rawPath,
                       method |-> method,
                       headers |-> headers,
                       li0 |-> lastIndex,
                       blocked |-> h.blocked,
                       console |-> h.console,
                       own |-> h.response,
                       nextCalls |-> h.nextCalls,
                       app |-> 0,
                       response |-> h.response]]
  /\ UNCHANGED <<options, patterns, shouldLog, status, heap>>

ConcurrentNext == \E r \in Slots : Arrive(r) \/ Application(r) \/ Respond(r)

ConcurrentSpec == ConcurrentInit /\ [][ConcurrentNext]_vars

\* C18 (as claimed): every request handled while others are in flight gets the
\* decision, the status and the log record that it gets when a fresh instance
\* of the same configuration handles it alone.
C18_AsIfHandledAlone ==
  \A r \in Slots :
    Handled(r) =>
      LET alone == Handler(honeypot(options), FreshLastIndex,
                           [path |-> reqs[r].path, method |-> reqs[r].method,
                            headers |-> reqs[r].headers])
      IN  /\ reqs[r].blocked = alone.blocked
          /\ reqs[r].own = alone.response
          /\ reqs[r].console = alone.console

(***************************************************************************)
(* Two instances from one module: the first made with the caller's         *)
(* options, the second made afterwards with none.                          *)
(***************************************************************************)
FactoryOptions ==
  {[DefaultOptions EXCEPT !.patterns = p, !.exclude = e] :
     p \in {Undefined, Some(<<Caller(1), Caller(2)>>)},
     e \in {Some(<<Caller(5)>>), Some(<<Caller(7), Caller(8)>>)}}

FactoryPaths ==
  {<<"/", "a", "d", "m", "i", "n">>,
   <<"/", "p", "h", "p", "m", "y", "a", "d", "m", "i", "n">>,
   <<"/", "s", "e", "c", "r", "e", "t">>,
   <<"/", "c", "u", "s", "t", "o", "m", "-", "a", "d", "m", "i", "n">>,
   <<"/", "b", "l", "o", "g", "s">>}

\* The caller calls honeypot(given): the first instance.
FactoryInit ==
  \E given \in FactoryOptions :
    \E call \in {honeypotCall(BuiltIns, given)} :
      /\ options = call.options
      /\ patterns = call.closure.patterns
      /\ shouldLog = call.closure.shouldLog
      /\ status = call.closure.status
      /\ lastIndex = [id \in Stateful |-> 0]
      /\ reqs = [r \in Slots |-> Idle]
      /\ heap = [ATTACK_PATTERNS |-> call.ATTACK_PATTERNS,
                 given |-> given,
                 second |-> Undefined]

\* The caller calls honeypot(): the second instance.
CreateSecond ==
  /\ ~heap.second.has
  /\ \E call \in {honeypotCall(heap.ATTACK_PATTERNS, DefaultOptions)} :
       heap' = [heap EXCEPT !.ATTACK_PATTERNS = call.ATTACK_PATTERNS,
                            !.second = Some(call.closure)]
  /\ UNCHANGED <<options, patterns, shouldLog, status, lastIndex, reqs>>

\* A request is handled by the middleware of instance to (1: the first, 2:
\* the second).
Ask(r, to) ==
  /\ reqs[r].pc = "idle"
  /\ to = 2 => heap.second.has
  /\ \E rawPath \in FactoryPaths :
       \E inst \in {IF to = 1 THEN Closure ELSE heap.second.v} :
         \E some \in {Matched(inst, lastIndex, rawPath)} :
           \E method \in Methods :
             LET c == [path |-> rawPath, method |-> method, headers |-> NoHeaders]
                 h == Outcome(inst, c, some)
             IN  /\ lastIndex' = h.li
                 /\ reqs' = [reqs EXCEPT ![r] =
                      [pc |-> IF h.nextCalls > 0 THEN "next" ELSE "done",
                       to |-> to,
                       path |-> rawPath,
                       li0 |-> lastIndex,
                       blocked |-> h.blocked,
                       console |-> h.console,
                       own |-> h.response,
                       nextCalls |-> h.nextCalls,
                       app |-> 0,
                       response |-> h.response]]
  /\ UNCHANGED <<options, patterns, shouldLog, status, heap>>

FactoryNext ==
  CreateSecond \/ Ask(1, 1) \/ Ask(1, 2) \/ Application(1) \/ Respond(1)

FactorySpec == FactoryInit /\ [][FactoryNext]_vars

\* C19: making instances leaves the module's ATTACK_PATTERNS array and the
\* caller's options, with their patterns and exclude arrays, as they were; the
\* second instance's rule list is the built-in list whatever the first was
\* given, and the first's is its own; a request to the second instance is
\* blocked exactly when a built-in matches its path, be it a built-in the
\* first instance excluded, and so not for the first instance's additions.
C19_InstancesShareNothing ==
  /\ heap.ATTACK_PATTERNS = BuiltIns
  /\ options = heap.given
  /\ patterns = SelectSeq(BuiltIns, Kept) \o SelectSeq(Additions, Kept)
  /\ heap.second.has => heap.second.v.patterns = BuiltIns
  /\ \A r \in Slots :
       (Handled(r) /\ reqs[r].to = 2) =>
         /\ reqs[r].blocked <=>
              \E b \in 1..Len(BuiltIns) : Matches(BuiltIns[b], Normalize(reqs[r].path))
         /\ reqs[r].path \in {AdminPath, PhpMyAdminPath} => reqs[r].blocked
         /\ reqs[r].path \in {SecretPath, <<"/", "c", "u", "s", "t", "o", "m", "-", "a", "d", "m", "i", "n">>} => ~reqs[r].blocked

\* C19 witness: the first instance excludes the admin built-in and adds
\* /secret; the second instance has blocked /admin.
C19_Witness ==
  \E r \in Slots :
    /\ heap.given.exclude = Some(<<Caller(5)>>)
    /\ heap.given.patterns = Some(<<Caller(1), Caller(2)>>)
    /\ heap.second.has
    /\ Handled(r)
    /\ reqs[r].to = 2
    /\ reqs[r].path = AdminPath
    /\ reqs[r].blocked

\* p and q are the same but for the case of letters.
SameButCase(p, q) ==
  /\ Len(p) = Len(q)
  /\ \A k \in 1..Len(p) : p[k] = q[k] \/ FlipCase(p[k]) = q[k]

\* C20: with the default rules a request is blocked exactly when some pattern
\* of the instance matches a path differing from its path only in the case of
\* letters, whichever such path is taken; /WP-ADMIN, /Admin and /BLOG are
\* blocked.
C20_DecisionIgnoresCase ==
  \A r \in Slots :
    (Handled(r) /\ reqs[r].path \in CasePaths) =>
      /\ \A q \in CasePaths :
           SameButCase(reqs[r].path, q) =>
             (reqs[r].blocked <=>
                \E k \in 1..Len(patterns) : <<patterns[k], q, TRUE>> \in CaseTabulated)
      /\ reqs[r].path \in {<<"/", "W", "P", "-", "A", "D", "M", "I", "N">>,
                         <<"/", "A", "d", "m", "i", "n">>,
                         <<"/", "B", "L", "O", "G">>}
           => reqs[r].blocked

\* C20 witness: /WP-ADMIN was blocked.
C20_Witness ==
  \E r \in Slots :
    /\ Handled(r)
    /\ reqs[r].path = <<"/", "W", "P", "-", "A", "D", "M", "I", "N">>
    /\ reqs[r].blocked
    /\ reqs[r].response = Some([status |-> 410, body |-> ""])

=============================================================================
